---- MODULE Spec2Model ----
(***************************************************************************)
(* Series pages of the blog: src/pages/series/[...id].astro.               *)
(*                                                                         *)
(* getStaticPaths() loads the non-draft blog posts, collects the distinct  *)
(* series identifiers and returns one static path per identifier, each     *)
(* carrying the posts whose series includes the identifier.  The page      *)
(* front matter then sorts the posts it was handed, most recent first.     *)
(*                                                                         *)
(* JavaScript arrays are objects with identity: Array.prototype.filter     *)
(* allocates a new array, Array.prototype.sort reorders its receiver in    *)
(* place.  The model keeps the arrays in a heap and the locals as          *)
(* references into it.                                                     *)
(*                                                                         *)
(* Strings are sequences of one-character strings, so that                 *)
(* String.prototype.includes is a substring test and not an equality.      *)
(***************************************************************************)
EXTENDS Integers, Sequences, FiniteSets

\* Bounds of the model.
MaxEntries == 2
MaxSeriesLen == 1
MaxGroups == 2

Range(s) == {s[i] : i \in 1..Len(s)}

SeqsUpTo(S, n) == UNION {[1..k -> S] : k \in 0..n}

(***************************************************************************)
(* The content store: what getCollection("blog") reads.                    *)
(***************************************************************************)

\* Series identifiers: the empty string, an identifier and an identifier
\* that has the former as a proper substring.
Strs == {<<>>, <<"a">>, <<"a", "b">>}

\* The dates of the posts' front matter, as calendar dates.
Dates == {[y |-> 2025, m |-> 2, d |-> 27], [y |-> 2025, m |-> 3, d |-> 3]}

\* data.series: absent (undefined, or null for an empty `series:` line),
\* a single string as in the posts' front matter, or an array of strings.
SeriesUndefined == [kind |-> "undefined", str |-> <<>>, arr |-> <<>>]

SeriesString(s) == [kind |-> "string", str |-> s, arr |-> <<>>]

SeriesArray(a) == [kind |-> "array", str |-> <<>>, arr |-> a]

SeriesStrings == {SeriesString(s) : s \in Strs}

SeriesArrays == {SeriesArray(a) : a \in SeqsUpTo(Strs, MaxSeriesLen)}

SeriesValues == {SeriesUndefined} \cup SeriesStrings \cup SeriesArrays

EntryData == [draft : BOOLEAN, date : Dates, series : SeriesValues]

\* Entries carry their position in the collection as their id.
WithIds(f) ==
  [i \in DOMAIN f |-> [id |-> i, draft |-> f[i].draft, date |-> f[i].date,
                       series |-> f[i].series]]

VARIABLES collection, pc, heap, posts, serieses, paths, sortedPosts, query,
          previous, sh

vars == <<collection, pc, heap, posts, serieses, paths, sortedPosts, query,
          previous, sh>>

NoQuery == [asked |-> FALSE, id |-> <<>>, posts |-> <<>>]

\* No index was built before.
NoIndex == [built |-> FALSE, index |-> <<>>]

\* The scaffold script is not running.
ShIdle == [pc |-> "idle"]

\* The site has not been built yet.
FreshSite ==
  /\ pc = "start"
  /\ heap = <<>>
  /\ posts = 0
  /\ serieses = <<>>
  /\ paths = <<>>
  /\ sortedPosts = <<>>
  /\ query = NoQuery
  /\ previous = NoIndex

\* Nothing has run yet.
Fresh == FreshSite /\ sh = ShIdle

Init ==
  /\ \E n \in 0..MaxEntries : \E f \in [1..n -> EntryData] : collection = WithIds(f)
  /\ Fresh

(***************************************************************************)
(* getStaticPaths, line 9: the non-draft posts.                            *)
(***************************************************************************)

\* Variant: the draft flag is not consulted.
KeepsEntryAnyDraft(data) == TRUE

\* ({ data }) => !data.draft
KeepsEntry(data) == ~data.draft

GetCollection ==
  /\ pc = "start"
  /\ heap' = Append(heap, SelectSeq(collection, KeepsEntry))
  /\ posts' = Len(heap) + 1
  /\ pc' = "loaded"
  /\ UNCHANGED <<collection, serieses, paths, sortedPosts, query, previous, sh>>

(***************************************************************************)
(* getStaticPaths, lines 12-14: the unique series.                         *)
(***************************************************************************)

\* Variant: only array-valued series are collected.
SeriesOrEmptyArraysOnly(series) ==
  IF series.kind = "array" THEN series.arr ELSE <<>>

\* Variant: a string is spread into its characters, [...series].
SeriesOrEmptySpread(series) ==
  CASE series.kind = "undefined" -> <<>>
    [] series.kind = "string" -> [i \in 1..Len(series.str) |-> <<series.str[i]>>]
    [] series.kind = "array" -> series.arr

\* Variant: only the first series of an array is collected, series[0].
SeriesOrEmptyFirstOnly(series) ==
  CASE series.kind = "undefined" -> <<>>
    [] series.kind = "string" -> IF series.str = <<>> THEN <<>> ELSE <<series.str>>
    [] series.kind = "array" ->
         IF series.arr = <<>> THEN <<>> ELSE <<series.arr[1]>>

\* post.data.series || [] : undefined, null and "" are falsy, every array
\* (the empty one too) is truthy.  flatMap then flattens an array by one
\* level and keeps any other value as one element.
SeriesOrEmpty(series) ==
  CASE series.kind = "undefined" -> <<>>
    [] series.kind = "string" -> IF series.str = <<>> THEN <<>> ELSE <<series.str>>
    [] series.kind = "array" -> series.arr

RECURSIVE FlatMapSeries(_)
FlatMapSeries(ps) ==
  IF ps = <<>> THEN <<>>
  ELSE SeriesOrEmpty(Head(ps).series) \o FlatMapSeries(Tail(ps))

\* Variant: the values are not made unique.
SpreadAll(xs) == xs

\* [...new Set(xs)]: the distinct values, in the order of first occurrence.
RECURSIVE SpreadSet(_)
SpreadSet(xs) ==
  IF xs = <<>> THEN <<>>
  ELSE LET init == SpreadSet(SubSeq(xs, 1, Len(xs) - 1))
           last == xs[Len(xs)]
       IN IF last \in Range(init) THEN init ELSE Append(init, last)

UniqueSeries ==
  /\ pc = "loaded"
  /\ serieses' = SpreadSet(FlatMapSeries(heap[posts]))
  /\ pc' = "mapping"
  /\ UNCHANGED <<collection, heap, posts, paths, sortedPosts, query, previous, sh>>

(***************************************************************************)
(* getStaticPaths, lines 17-22: one path per series.                       *)
(***************************************************************************)

\* String.prototype.includes: g occurs in s as a substring.
StringIncludes(s, g) ==
  \E i \in 1..(Len(s) - Len(g) + 1) : SubSeq(s, i, i + Len(g) - 1) = g

\* Variant: indexOf(g) > 0, the first element is never found.
ArrayIncludesFromSecond(a, g) == \E i \in 2..Len(a) : a[i] = g

\* Array.prototype.includes: g is an element of a.
ArrayIncludes(a, g) == \E i \in 1..Len(a) : a[i] = g

\* Variant: a post without a series passes the test, !series || series.includes(g).
SeriesIncludesMissingMatches(series, g) ==
  CASE series.kind = "undefined" -> TRUE
    [] series.kind = "string" -> StringIncludes(series.str, g)
    [] series.kind = "array" -> series.arr = <<>> \/ ArrayIncludes(series.arr, g)

\* series?.includes(g): undefined when series is undefined or null.
SeriesIncludes(series, g) ==
  CASE series.kind = "undefined" -> FALSE
    [] series.kind = "string" -> StringIncludes(series.str, g)
    [] series.kind = "array" -> ArrayIncludes(series.arr, g)

\* Variant: strict equality with the series, post.data.series === series.
PropsFilterStrictEquals(post, series) ==
  post.series.kind = "string" /\ post.series.str = series

\* (post) => post.data.series?.includes(series)
PropsFilter(post, series) == SeriesIncludes(post.series, series)

FilterBySeries(ps, series) ==
  LET Test(post) == PropsFilter(post, series) IN SelectSeq(ps, Test)

\* Variant: one result array, allocated for the first path, reused for all.
PropsPostsRefReused == IF paths = <<>> THEN Len(heap) + 1 ELSE paths[1].posts

\* Variant: the posts array itself is filtered in place and handed on.
PropsPostsRefShared == posts

\* Array.prototype.filter returns a newly allocated array.
PropsPostsRef == Len(heap) + 1

Store(h, ref, arr) ==
  IF ref = Len(h) + 1 THEN Append(h, arr) ELSE [h EXCEPT ![ref] = arr]

MapSeries ==
  /\ pc = "mapping"
  /\ Len(paths) < Len(serieses)
  /\ LET series == serieses[Len(paths) + 1]
     IN /\ heap' = Store(heap, PropsPostsRef, FilterBySeries(heap[posts], series))
        /\ paths' = Append(paths, [id |-> series, posts |-> PropsPostsRef])
  /\ UNCHANGED <<collection, pc, posts, serieses, sortedPosts, query, previous, sh>>

ReturnPaths ==
  /\ pc = "mapping"
  /\ Len(paths) = Len(serieses)
  /\ pc' = "returned"
  /\ sortedPosts' = [i \in 1..Len(paths) |-> 0]
  /\ UNCHANGED <<collection, heap, posts, serieses, paths, query, previous, sh>>

(***************************************************************************)
(* The page, lines 25-31: sort the posts it was handed.                    *)
(***************************************************************************)

\* Days since 1970-01-01 of a calendar date (proleptic Gregorian).
DaysFromCivil(date) ==
  LET y == IF date.m <= 2 THEN date.y - 1 ELSE date.y
      era == y \div 400
      yoe == y - era * 400
      mp == IF date.m > 2 THEN date.m - 3 ELSE date.m + 9
      doy == (153 * mp + 2) \div 5 + date.d - 1
      doe == yoe * 365 + yoe \div 4 - yoe \div 100 + doy
  IN era * 146097 + doe - 719468

\* Variant: getDate() for getTime(), the day of the month.
getTimeDayOfMonth(date) == date.d

\* new Date(date).getTime(), in days: the 86,400,000 ms of a day are a
\* positive factor of both operands of the comparison.
getTime(date) == DaysFromCivil(date)

\* Variant: the operands swapped, oldest first.
SortCompareAscending(a, b) == getTime(a.date) - getTime(b.date)

\* (a, b) => new Date(b.data.date).getTime() - new Date(a.data.date).getTime()
SortCompare(a, b) == getTime(b.date) - getTime(a.date)

\* Variant: an unstable sort, x goes in front of the elements it ties with.
InsertSortedUnstable(s, x) ==
  LET k == Cardinality({i \in 1..Len(s) : SortCompare(s[i], x) < 0})
  IN SubSeq(s, 1, k) \o <<x>> \o SubSeq(s, k + 1, Len(s))

\* Array.prototype.sort is stable: x goes behind every element that the
\* comparison does not put behind it.
InsertSorted(s, x) ==
  LET k == Cardinality({i \in 1..Len(s) : SortCompare(s[i], x) <= 0})
  IN SubSeq(s, 1, k) \o <<x>> \o SubSeq(s, k + 1, Len(s))

RECURSIVE SortPrefix(_, _)
SortPrefix(arr, n) ==
  IF n = 0 THEN <<>> ELSE InsertSorted(SortPrefix(arr, n - 1), arr[n])

ArraySort(arr) == SortPrefix(arr, Len(arr))

\* posts.sort(...) reorders the array of Astro.props in place and returns it.
RenderPage(i) ==
  /\ pc = "returned"
  /\ sortedPosts[i] = 0
  /\ heap' = [heap EXCEPT ![paths[i].posts] = ArraySort(@)]
  /\ sortedPosts' = [sortedPosts EXCEPT ![i] = paths[i].posts]
  /\ UNCHANGED <<collection, pc, posts, serieses, paths, query, previous, sh>>

Next ==
  \/ GetCollection
  \/ UniqueSeries
  \/ MapSeries
  \/ ReturnPaths
  \/ \E i \in 1..Len(paths) : RenderPage(i)

Spec == Init /\ [][Next]_vars

(***************************************************************************)
(* The two operations as functions of the entry collection.                *)
(***************************************************************************)

\* Lines 9-14.
distinctGroups(entries) == SpreadSet(FlatMapSeries(SelectSeq(entries, KeepsEntry)))

\* Lines 9, 20 and 29-31.
entriesForGroup(entries, groupId) ==
  LET Test(post) == SeriesIncludes(post.series, groupId)
  IN ArraySort(SelectSeq(SelectSeq(entries, KeepsEntry), Test))

\* One call of entriesForGroup with an arbitrary identifier.
Query(g) ==
  /\ pc = "start"
  /\ ~query.asked
  /\ query' = [asked |-> TRUE, id |-> g, posts |-> entriesForGroup(collection, g)]
  /\ UNCHANGED <<collection, pc, heap, posts, serieses, paths, sortedPosts, previous, sh>>

NextQuery == \E g \in Strs : Query(g)

SpecQuery == Init /\ [][NextQuery]_vars

(***************************************************************************)
(* The index built a second time from the same collection.                 *)
(***************************************************************************)

\* What the pages show: per path its id and its sorted posts.
Index == [i \in 1..Len(paths) |-> [id |-> paths[i].id, posts |-> heap[paths[i].posts]]]

\* getStaticPaths is called again; the arrays of the first call stay behind.
BuildAgain ==
  /\ pc = "returned"
  /\ \A i \in 1..Len(paths) : sortedPosts[i] # 0
  /\ ~previous.built
  /\ previous' = [built |-> TRUE, index |-> Index]
  /\ pc' = "start"
  /\ posts' = 0
  /\ serieses' = <<>>
  /\ paths' = <<>>
  /\ sortedPosts' = <<>>
  /\ UNCHANGED <<collection, heap, query, sh>>

\* The pages are rendered again with the props they were handed before:
\* posts.sort runs on arrays it has already sorted.
RenderAgain ==
  /\ pc = "returned"
  /\ \A i \in 1..Len(paths) : sortedPosts[i] # 0
  /\ ~previous.built
  /\ previous' = [built |-> TRUE, index |-> Index]
  /\ sortedPosts' = [i \in 1..Len(paths) |-> 0]
  /\ UNCHANGED <<collection, pc, heap, posts, serieses, paths, query, sh>>

NextTwice == Next \/ BuildAgain \/ RenderAgain

SpecTwice == Init /\ [][NextTwice]_vars

(***************************************************************************)
(* The example collection: A and B in go-series, C a draft in go-series,   *)
(* D without a series; supplied in any order, the series written as an     *)
(* array or as the single string of a post's front matter.                 *)
(***************************************************************************)

GoSeries == <<"g", "o", "-", "s", "e", "r", "i", "e", "s">>

ExampleNames == {"A", "B", "C", "D"}

ExampleSeries(shape) ==
  CASE shape = "array" -> SeriesArray(<<GoSeries>>)
    [] shape = "string" -> SeriesString(GoSeries)
    [] shape = "empty" -> SeriesArray(<<>>)
    [] shape = "undefined" -> SeriesUndefined

ExampleData(name, shape) ==
  CASE name = "A" -> [draft |-> FALSE, date |-> [y |-> 2025, m |-> 2, d |-> 24],
                      series |-> ExampleSeries(shape)]
    [] name = "B" -> [draft |-> FALSE, date |-> [y |-> 2025, m |-> 3, d |-> 3],
                      series |-> ExampleSeries(shape)]
    [] name = "C" -> [draft |-> TRUE, date |-> [y |-> 2025, m |-> 2, d |-> 27],
                      series |-> ExampleSeries(shape)]
    [] name = "D" -> [draft |-> FALSE, date |-> [y |-> 2025, m |-> 3, d |-> 27],
                      series |-> ExampleSeries(shape)]

ExampleShapes(name) ==
  IF name = "D" THEN {"empty", "undefined"} ELSE {"array", "string"}

InitExample ==
  /\ \E order \in [1..4 -> ExampleNames] :
       /\ \A i, j \in 1..4 : i # j => order[i] # order[j]
       /\ \E shape \in [ExampleNames -> {"array", "string", "empty", "undefined"}] :
            /\ \A name \in ExampleNames : shape[name] \in ExampleShapes(name)
            /\ collection = WithIds([i \in 1..4 |-> ExampleData(order[i], shape[order[i]])])
  /\ Fresh

SpecExample == InitExample /\ [][Next]_vars

(***************************************************************************)
(* Collections whose entries list several series: arrays of up to          *)
(* MaxGroups identifiers, repeats included.                                *)
(***************************************************************************)

MultiIds == {<<"a">>, <<"a", "b">>}

MultiData ==
  [draft : BOOLEAN, date : Dates,
   series : {SeriesArray(a) : a \in SeqsUpTo(MultiIds, MaxGroups)}]

InitMulti ==
  /\ \E n \in 0..MaxEntries : \E f \in [1..n -> MultiData] : collection = WithIds(f)
  /\ Fresh

SpecMulti == InitMulti /\ [][Next]_vars

(***************************************************************************)
(* The script that scaffolds a new post (consts.ts, lines 45-72).          *)
(*                                                                         *)
(* sh.dirs and sh.index are the post directories under ./src/content/blog  *)
(* and their index.md; sh.initial is index.md as the script found it.      *)
(* A directory that cannot be created is "blocked".  The redirection into  *)
(* index.md is taken to succeed once the directory exists.                 *)
(***************************************************************************)

PostNames == {"p", "q"}

\* Outputs of date +'%Y-%m-%d'.
Todays == {"2025-03-04", "2025-03-27"}

NoFile ==
  [exists |-> FALSE, title |-> "", description |-> "", date |-> "",
   tags |-> <<>>, series |-> ""]

\* The here-document of lines 60-70.
Template(today) ==
  [exists |-> TRUE, title |-> "", description |-> "", date |-> today,
   tags |-> <<"", "">>, series |-> ""]

\* Posts written earlier: one filled in, one still the blank of its day.
OldFiles ==
  {[exists |-> TRUE, title |-> "Redoed #1", description |-> "first step",
    date |-> "2025-02-24", tags |-> <<"go", "backend">>, series |-> "Building-Redoed"],
   Template("2025-03-04")}

siteVars == <<collection, pc, heap, posts, serieses, paths, sortedPosts, query, previous>>

InitScaffold ==
  /\ collection = <<>>
  /\ FreshSite
  /\ \E arg \in {""} \cup PostNames, today \in Todays,
        dirs \in [PostNames -> {"absent", "blocked", "dir"}],
        index \in [PostNames -> {NoFile} \cup OldFiles] :
       /\ \A n \in PostNames : index[n].exists => dirs[n] = "dir"
       /\ sh = [pc |-> "start", arg |-> arg, today |-> today, dirs |-> dirs,
                index |-> index, initial |-> index, stdout |-> <<>>,
                status |-> -1, editor |-> NoFile]

\* if [[ -z "$1" ]]; then echo "Usage: $0 <post-name>"; exit 1; fi
ShCheckArgs ==
  /\ sh.pc = "start"
  /\ sh' = IF sh.arg = ""
           THEN [sh EXCEPT !.stdout = Append(@, "Usage: $0 <post-name>"),
                           !.status = 1, !.pc = "exit"]
           ELSE [sh EXCEPT !.pc = "mkdir"]
  /\ UNCHANGED siteVars

\* Variant: the failure is reported but the script goes on, the exit 1 of
\* line 57 is not there.
ShMkdirNoExit ==
  /\ sh.pc = "mkdir"
  /\ sh' = IF sh.dirs[sh.arg] = "blocked"
           THEN [sh EXCEPT !.stdout = Append(@, "Failed to create directory"),
                           !.pc = "write"]
           ELSE [sh EXCEPT !.dirs[sh.arg] = "dir", !.pc = "write"]
  /\ UNCHANGED siteVars

\* mkdir -p "$POST_DIR" || { echo "Failed to create directory"; exit 1; }
ShMkdir ==
  /\ sh.pc = "mkdir"
  /\ sh' = IF sh.dirs[sh.arg] = "blocked"
           THEN [sh EXCEPT !.stdout = Append(@, "Failed to create directory"),
                           !.status = 1, !.pc = "exit"]
           ELSE [sh EXCEPT !.dirs[sh.arg] = "dir", !.pc = "write"]
  /\ UNCHANGED siteVars

\* Variant: an index.md that is already there is kept.
IndexAfterCatKeepExisting(old, today) ==
  IF old.exists THEN old ELSE Template(today)

\* cat >"$POST_DIR/index.md" <<EOF: the file is truncated and written.
IndexAfterCat(old, today) == Template(today)

ShWrite ==
  /\ sh.pc = "write"
  /\ sh' = [sh EXCEPT !.index[sh.arg] = IndexAfterCat(@, sh.today), !.pc = "editor"]
  /\ UNCHANGED siteVars

\* nvim "$POST_DIR/index.md": the script ends with the editor's status.
ShEditor ==
  /\ sh.pc = "editor"
  /\ \E st \in {0, 1} :
       sh' = [sh EXCEPT !.editor = sh.index[sh.arg], !.status = st, !.pc = "exit"]
  /\ UNCHANGED siteVars

NextScaffold == ShCheckArgs \/ ShMkdir \/ ShWrite \/ ShEditor

SpecScaffold == InitScaffold /\ [][NextScaffold]_vars

(***************************************************************************)
(* Vocabulary of the properties.                                           *)
(***************************************************************************)

\* The identifiers of an entry's own groups (series) field.
GroupsOf(e) ==
  CASE e.series.kind = "undefined" -> {}
    [] e.series.kind = "string" -> {e.series.str}
    [] e.series.kind = "array" -> Range(e.series.arr)

NonExcluded == {e \in Range(collection) : ~e.draft}

InputOrder == SelectSeq(collection, LAMBDA e : ~e.draft)

\* a.publishedAt >= b.publishedAt, on calendar dates.
DateGeq(a, b) ==
  \/ a.y > b.y
  \/ a.y = b.y /\ a.m > b.m
  \/ a.y = b.y /\ a.m = b.m /\ a.d >= b.d

PathPosts(i) == heap[paths[i].posts]

PathIds == {paths[i].id : i \in 1..Len(paths)}

Rendered == {i \in DOMAIN sortedPosts : sortedPosts[i] # 0}

AllRendered == pc = "returned" /\ Rendered = 1..Len(paths)

\* C1 (soundness of membership): every post attached to the path of id g
\* has g among the identifiers of its own series field.
C1_Soundness ==
  \A i \in 1..Len(paths) : \A k \in 1..Len(PathPosts(i)) :
    paths[i].id \in GroupsOf(PathPosts(i)[k])

\* C2 (exclusion): a draft entry is in no path's posts, and an identifier
\* of a draft entry is a series only if a non-draft entry carries it too.
C2_Exclusion ==
  /\ \A i \in 1..Len(paths) : \A k \in 1..Len(PathPosts(i)) : ~PathPosts(i)[k].draft
  /\ \A e \in Range(collection) : e.draft =>
       \A g \in GroupsOf(e) \cap Range(serieses) : \E e2 \in NonExcluded : g \in GroupsOf(e2)

\* A draft entry whose series matches the id of a generated path.
C2_Witness ==
  /\ AllRendered
  /\ \E i \in 1..Len(paths) : \E e \in Range(collection) :
       e.draft /\ paths[i].id \in GroupsOf(e) /\ PathPosts(i) # <<>>

\* C3 (completeness): every non-empty identifier of a non-draft entry is a
\* series, and has a path once getStaticPaths has returned.
C3_Completeness ==
  \A e \in NonExcluded : \A g \in GroupsOf(e) : g # <<>> =>
    /\ pc \in {"mapping", "returned"} => g \in Range(serieses)
    /\ pc = "returned" => g \in PathIds

\* Paths returned for a single-string series and for an array-valued one.
C3_Witness ==
  /\ pc = "returned"
  /\ \E e1, e2 \in NonExcluded :
       /\ e1.series.kind = "string" /\ e1.series.str # <<>>
       /\ e2.series.kind = "array" /\ e2.series.arr # <<>> /\ e2.series.arr[1] # <<>>
       /\ e1.series.str # e2.series.arr[1]

\* C4 (no extra keys): every series, and every path id, is an identifier of
\* the series field of some non-draft entry.
C4_NoExtraKeys ==
  \A g \in Range(serieses) \cup PathIds : \E e \in NonExcluded : g \in GroupsOf(e)

\* A path is returned while the identifier of a draft entry got none.
C4_Witness ==
  /\ pc = "returned"
  /\ paths # <<>>
  /\ \E e \in Range(collection) :
       e.draft /\ \E g \in GroupsOf(e) : g # <<>> /\ g \notin PathIds

\* C5 (sort order): in the sorted posts of a page every post is at least as
\* recent as the one after it.
C5_SortOrder ==
  \A i \in Rendered : \A k \in 1..(Len(heap[sortedPosts[i]]) - 1) :
    DateGeq(heap[sortedPosts[i]][k].date, heap[sortedPosts[i]][k + 1].date)

\* A page whose sort moved a later, more recent entry to the front.
C5_Witness ==
  \E i \in Rendered :
    /\ Len(heap[sortedPosts[i]]) = 2
    /\ heap[sortedPosts[i]][1].id > heap[sortedPosts[i]][2].id
    /\ heap[sortedPosts[i]][1].date # heap[sortedPosts[i]][2].date

\* C6 (stable ties): posts of a page with the same date are in the order
\* of the entry collection.
C6_StableTies ==
  \A i \in Rendered : \A k, l \in 1..Len(heap[sortedPosts[i]]) :
    (k < l /\ heap[sortedPosts[i]][k].date = heap[sortedPosts[i]][l].date)
      => heap[sortedPosts[i]][k].id < heap[sortedPosts[i]][l].id

\* A rendered page with two posts of the same date.
C6_Witness ==
  \E i \in Rendered :
    /\ Len(heap[sortedPosts[i]]) = 2
    /\ heap[sortedPosts[i]][1].date = heap[sortedPosts[i]][2].date

\* C7 (empty identifier ignored): the empty string is never a series and
\* never the id of a path.
C7_EmptyIgnored == <<>> \notin Range(serieses) \cup PathIds

C9_NoInputMutation == posts # 0 => heap[posts] = InputOrder

\* A page reordered its posts while the array it was filtered from holds
\* the same two entries in input order.
C9_Witness ==
  /\ posts # 0
  /\ Len(heap[posts]) = 2
  /\ \E i \in Rendered :
       /\ Len(heap[sortedPosts[i]]) = 2
       /\ heap[sortedPosts[i]] # heap[posts]

\* C10 (unknown group): entriesForGroup of an identifier that no non-draft
\* entry has in its series field is empty.
C10_UnknownGroup ==
  (query.asked /\ \A e \in NonExcluded : query.id \notin GroupsOf(e))
    => query.posts = <<>>

\* C11 (missing or empty groups): a non-draft entry without a series, or
\* with an empty array of series, is in no path's posts, and every series
\* is an identifier of another entry.
C11_MissingGroups ==
  \A e \in NonExcluded : GroupsOf(e) = {} =>
    /\ \A i \in 1..Len(paths) : e \notin Range(PathPosts(i))
    /\ \A g \in Range(serieses) : \E e2 \in NonExcluded \ {e} : g \in GroupsOf(e2)

\* Every page is rendered, one of them with a post, while the collection
\* holds a non-draft entry that has no series.
C11_Witness ==
  /\ AllRendered
  /\ \E i \in 1..Len(paths) : PathPosts(i) # <<>>
  /\ \E e \in NonExcluded : GroupsOf(e) = {}

\* C13 (concurrent invocation safety): whatever step runs, the posts of a
\* page change only in the step that renders this page, so every render
\* reads what it would read alone and its result stays what it wrote.
C13_NoInterference ==
  [][\A i \in 1..Len(paths) :
       heap'[paths[i].posts] # heap[paths[i].posts]
         => (i \notin Rendered /\ i \in DOMAIN sortedPosts' /\ sortedPosts'[i] # 0)]_vars

\* The second page is rendered before the first, and a post is on both.
C13_Witness ==
  /\ pc = "returned"
  /\ Len(paths) = 2
  /\ Rendered = {2}
  /\ Range(PathPosts(1)) \cap Range(PathPosts(2)) # {}
  /\ Len(PathPosts(1)) = 2

\* C15 (exact match for a single-string series): a post whose series is a
\* single string is in the posts of a path only if its series is the id.
C15_ExactMatch ==
  \A i \in 1..Len(paths) : \A k \in 1..Len(PathPosts(i)) :
    PathPosts(i)[k].series.kind = "string"
      => PathPosts(i)[k].series.str = paths[i].id

\* C17 (known groups are non-empty): every path has at least one post, and
\* entriesForGroup of every series is not empty.
C17_KnownGroupsNonEmpty ==
  /\ \A i \in 1..Len(paths) : PathPosts(i) # <<>>
  /\ \A g \in Range(serieses) : entriesForGroup(collection, g) # <<>>

\* Two paths returned, each with one post.
C17_Witness ==
  /\ pc = "returned"
  /\ Len(paths) = 2
  /\ \A i \in 1..Len(paths) : Len(PathPosts(i)) = 1

\* C19 (no loss or duplication): the sorted posts of a page hold every
\* non-draft entry that has the id in its series field exactly once, and
\* nothing else.
C19_Permutation ==
  \A i \in Rendered :
    LET out == heap[sortedPosts[i]]
    IN /\ \A e \in NonExcluded : paths[i].id \in GroupsOf(e) =>
            Cardinality({k \in 1..Len(out) : out[k] = e}) = 1
       /\ \A k \in 1..Len(out) :
            out[k] \in NonExcluded /\ paths[i].id \in GroupsOf(out[k])

\* C12 (idempotence): the index built a second time, by a new call of
\* getStaticPaths or by rendering the pages again, has the same ids and,
\* per id, the same posts in the same order as the first.
C12_Idempotence ==
  (previous.built /\ AllRendered) => Index = previous.index

\* The second index is complete and has a page with two posts of one date.
C12_Witness ==
  /\ previous.built
  /\ AllRendered
  /\ \E i \in 1..Len(paths) :
       /\ Len(PathPosts(i)) = 2
       /\ PathPosts(i)[1].date = PathPosts(i)[2].date

\* C14 (example scenario): for the entries A, B, C, D the series are
\* exactly go-series, and its page lists exactly B, then A.
C14_Example ==
  /\ pc \in {"mapping", "returned"} => serieses = <<GoSeries>>
  /\ pc = "returned" => PathIds = {GoSeries} /\ Len(paths) = 1
  /\ \A i \in Rendered :
       /\ Len(heap[sortedPosts[i]]) = 2
       /\ Range(heap[sortedPosts[i]]) \subseteq Range(collection)
       /\ heap[sortedPosts[i]][1].date = ExampleData("B", "array").date
       /\ heap[sortedPosts[i]][2].date = ExampleData("A", "array").date

\* The page is rendered for the collection as listed: A, B, C, D, the
\* series as arrays.
C14_Witness ==
  /\ AllRendered
  /\ Rendered # {}
  /\ collection = WithIds(<<ExampleData("A", "array"), ExampleData("B", "array"),
                            ExampleData("C", "array"), ExampleData("D", "empty")>>)

\* C16 (multi-group membership): a non-draft entry that lists several
\* distinct non-empty identifiers has each of them among the series, and
\* is in the posts of the path of each of them, before and after the sort.
C16_MultiGroup ==
  \A e \in NonExcluded :
    Cardinality(GroupsOf(e) \ {<<>>}) >= 2 =>
      \A g \in GroupsOf(e) \ {<<>>} :
        /\ pc \in {"mapping", "returned"} => g \in Range(serieses)
        /\ pc = "returned" =>
             \E i \in 1..Len(paths) : paths[i].id = g /\ e \in Range(PathPosts(i))

\* Both pages are rendered and the same entry is on both.
C16_Witness ==
  /\ AllRendered
  /\ \E e \in NonExcluded :
       /\ Cardinality(GroupsOf(e)) = 2
       /\ \A i \in 1..Len(paths) : e \in Range(PathPosts(i))
       /\ Len(paths) = 2

\* C18 (one page per group): no two paths have the same id, and the posts
\* of a path are the posts that pass the filter for the path's own id.
C18_OnePagePerGroup ==
  /\ \A i, j \in 1..Len(paths) : i # j => paths[i].id # paths[j].id
  /\ \A i \in 1..Len(paths) :
       Range(PathPosts(i)) =
         {e \in NonExcluded : SeriesIncludes(e.series, paths[i].id)}
  /\ \A i \in 1..Len(paths) : Len(PathPosts(i)) = Cardinality(Range(PathPosts(i)))

\* One path is returned for an identifier that one entry lists twice and
\* another entry lists too, beside the path of another group.
C18_Witness ==
  /\ pc = "returned"
  /\ Len(paths) = 2
  /\ \E e1, e2 \in NonExcluded :
       /\ e1 # e2
       /\ Len(e1.series.arr) = 2 /\ e1.series.arr[1] = e1.series.arr[2]
       /\ e1.series.arr[1] \in GroupsOf(e2)
  /\ \E i \in 1..Len(paths) : Len(PathPosts(i)) = 1

\* C20 (scaffold overwrites): when the post's directory already held an
\* index.md, the file is the blank template of today once it is written,
\* and that is what the editor opens.
C20_ScaffoldOverwrites ==
  (sh.pc \in {"editor", "exit"} /\ sh.arg # "" /\ sh.initial[sh.arg].exists) =>
    /\ sh.index[sh.arg] = Template(sh.today)
    /\ sh.editor.exists => sh.editor = Template(sh.today)
    /\ sh.pc = "exit" => sh.editor.exists

\* The editor was opened on a post whose filled-in index.md was replaced.
C20_Witness ==
  /\ sh.pc = "exit"
  /\ sh.arg # ""
  /\ sh.initial[sh.arg].exists
  /\ sh.initial[sh.arg].title # ""
  /\ sh.editor.exists
  /\ sh.index[sh.arg] # sh.initial[sh.arg]

\* C21 (scaffold error exits): when the script is run without a post name,
\* or the post directory cannot be created, it never reaches the write or
\* the editor, no index.md is written, the editor is not started, and it
\* ends with status 1 after printing exactly one message: the usage line,
\* or the directory failure.
C21_ScaffoldErrorExits ==
  (sh.arg = "" \/ sh.dirs[sh.arg] = "blocked") =>
    /\ sh.pc \notin {"write", "editor"}
    /\ sh.index = sh.initial
    /\ sh.editor = NoFile
    /\ sh.pc = "exit" =>
         /\ sh.status = 1
         /\ sh.stdout = IF sh.arg = "" THEN <<"Usage: $0 <post-name>">>
                        ELSE <<"Failed to create directory">>

\* The script ended on a directory it could not create, with another
\* post's filled-in index.md beside it.
C21_Witness ==
  /\ sh.pc = "exit"
  /\ sh.arg # ""
  /\ sh.dirs[sh.arg] = "blocked"
  /\ sh.status = 1
  /\ sh.stdout = <<"Failed to create directory">>
  /\ \E n \in PostNames : sh.initial[n].exists /\ sh.initial[n].title # ""
====
